---------------------------- MODULE Spec2Model ----------------------------
(***************************************************************************)
(* A model of the AI Resume System: the ingestion pipeline                 *)
(* (resume_parser.py), the LLM orchestrator (llm_orchestrator.py) and the  *)
(* command-line front end (main.py, output_formatter.py).                  *)
(*                                                                         *)
(* Text is a sequence of one-character strings; a fixed phrase of a        *)
(* template or of a response is one element.  Messages of exceptions are   *)
(* TLA+ strings built with \o, as the code builds them with f-strings.     *)
(***************************************************************************)
EXTENDS Integers, Sequences, FiniteSets, TLC

VARIABLES
    \* sanitize_text applied to a raw text, and applied once more
    raw_text, sanitized, sanitized_again, spc,
    \* parse_input on one file
    file, ipc, extract_calls, extracted, parse_out,
    \* build_prompt / analyze_resume
    job_desc, resume, input_prompt, env, apc, stages, llm_calls, loc, outcome,
    \* main
    args, sys, mpc, mloc, calls, printed, out_file

sanVars  == <<raw_text, sanitized, sanitized_again, spc>>
ingVars  == <<file, ipc, extract_calls, extracted, parse_out>>
prmVars  == <<job_desc, resume, input_prompt>>
anaVars  == <<env, apc, stages, llm_calls, loc, outcome>>
mainVars == <<args, sys, mpc, mloc, calls, printed, out_file>>
vars == <<sanVars, ingVars, prmVars, anaVars, mainVars>>

None == "None"

----------------------------------------------------------------------------
(* Bounds of the model.                                                    *)

\* longest raw text given to sanitize_text
MaxRawLen == 6

\* all sequences over S of length at most n
SeqUpTo(S, n) == UNION {[1..k -> S] : k \in 0..n}

----------------------------------------------------------------------------
(* Python string operations the code uses.                                 *)

\* t occurs in s at position i
OccursAt(s, t, i) ==
    /\ i + Len(t) - 1 <= Len(s)
    /\ \A k \in 1..Len(t) : s[i + k - 1] = t[k]

\* token in s
Contains(s, t) == \E i \in 1..(Len(s) - Len(t) + 1) : OccursAt(s, t, i)

\* s.replace(t, ''): one left-to-right pass over non-overlapping occurrences;
\* the text left after a removal is not scanned again.
RECURSIVE ReplaceFrom(_, _, _)
ReplaceFrom(s, t, i) ==
    IF i > Len(s) THEN <<>>
    ELSE IF OccursAt(s, t, i) THEN ReplaceFrom(s, t, i + Len(t))
    ELSE <<s[i]>> \o ReplaceFrom(s, t, i + 1)

StrReplace(s, t) == ReplaceFrom(s, t, 1)

IsSpace(c) == c \in {" ", "\n", "\t"}

\* text.strip() == ''
IsBlank(s) == \A i \in 1..Len(s) : IsSpace(s[i])

\* ' '.join(s.split()): words separated by one space, no space at the ends
RECURSIVE JoinSplitFrom(_, _, _, _)
JoinSplitFrom(s, i, out, gap) ==
    IF i > Len(s) THEN out
    ELSE IF IsSpace(s[i]) THEN JoinSplitFrom(s, i + 1, out, out # <<>>)
    ELSE JoinSplitFrom(s, i + 1,
                       (IF gap THEN out \o <<" ">> ELSE out) \o <<s[i]>>, FALSE)

JoinSplit(s) == JoinSplitFrom(s, 1, <<>>, FALSE)

----------------------------------------------------------------------------
(* resume_parser.sanitize_text                                             *)

Letters == {"a", "b", "e", "i", "m", "n", "r", "s", "t", "x", "y",
            "A", "S", "U"}

\* a "<" opens a tag when a tag name, "/", "!" or "?" follows it
OpensTag(s, i) ==
    /\ s[i] = "<"
    /\ i < Len(s)
    /\ s[i + 1] \in Letters \cup {"/", "!", "?"}

\* position after the ">" closing the tag opened at i (past the end when the
\* tag is never closed: the parser drops the rest)
RECURSIVE TagEnd(_, _)
TagEnd(s, i) ==
    IF i > Len(s) THEN i
    ELSE IF s[i] = ">" THEN i + 1
    ELSE TagEnd(s, i + 1)

\* BeautifulSoup(text, 'lxml').get_text(): the tags go, the text between
\* them stays
RECURSIVE GetTextFrom(_, _)
GetTextFrom(s, i) ==
    IF i > Len(s) THEN <<>>
    ELSE IF OpensTag(s, i) THEN GetTextFrom(s, TagEnd(s, i + 1))
    ELSE <<s[i]>> \o GetTextFrom(s, i + 1)

get_text(s) == GetTextFrom(s, 1)

\* the backquote character, which a TLA+ string cannot hold
Backquote == "BQ"

\* the list sanitize_text loops over: '###', '>>>', 'User:', 'Assistant:',
\* 'System:' and three backquotes
SuspiciousTokens ==
    << <<"#", "#", "#">>,
       <<">", ">", ">">>,
       <<"U", "s", "e", "r", ":">>,
       <<"A", "s", "s", "i", "s", "t", "a", "n", "t", ":">>,
       <<"S", "y", "s", "t", "e", "m", ":">>,
       <<Backquote, Backquote, Backquote>> >>

\* for token in [...]: clean_text = clean_text.replace(token, '')
RECURSIVE RemoveTokensFrom(_, _)
RemoveTokensFrom(s, k) ==
    IF k > Len(SuspiciousTokens) THEN s
    ELSE RemoveTokensFrom(StrReplace(s, SuspiciousTokens[k]), k + 1)

sanitize_text(text) == JoinSplit(RemoveTokensFrom(get_text(text), 1))

\* some denylisted token is a substring of s
HasSuspiciousToken(s) ==
    \E k \in 1..Len(SuspiciousTokens) : Contains(s, SuspiciousTokens[k])

----------------------------------------------------------------------------
(* resume_parser: validate_input, the three extractors, parse_input        *)

\* largest file size, in bytes, and longest text a file holds
MaxFileSize == 3

Paths == {"cv.pdf", "cv.PDF", "cv.docx", "cv.txt", "cv.TXT", "cv.rtf", "cv"}

\* os.path.splitext(file_path)[1]
splitext(path) ==
    CASE path = "cv.pdf"  -> ".pdf"
      [] path = "cv.PDF"  -> ".PDF"
      [] path = "cv.docx" -> ".docx"
      [] path = "cv.txt"  -> ".txt"
      [] path = "cv.TXT"  -> ".TXT"
      [] path = "cv.rtf"  -> ".rtf"
      [] OTHER            -> ""

\* str.lower() on an extension
lower(ext) ==
    CASE ext = ".PDF" -> ".pdf"
      [] ext = ".TXT" -> ".txt"
      [] OTHER        -> ext

SUPPORTED_EXTENSIONS == {".pdf", ".docx", ".txt"}

FileChars == {"x", " ", "#"}

\* The files of the model.  fault: the extraction library (or open/decode,
\* for a text file) raises on this file.  text: what extraction yields
\* otherwise.  A file that does not exist, or of zero bytes, holds no text; a
\* readable text file has one byte per character.
Files ==
    {f \in [path : Paths, exists : BOOLEAN, size : 0..MaxFileSize,
            fault : BOOLEAN, text : SeqUpTo(FileChars, MaxFileSize)] :
        /\ ~f.exists => (f.size = 0 /\ ~f.fault)
        /\ f.size = 0 => f.text = <<>>
        /\ Len(f.text) <= f.size
        /\ (lower(splitext(f.path)) = ".txt" /\ ~f.fault) => Len(f.text) = f.size}

Raised(msg) == [raised |-> TRUE, class |-> "InputValidationError",
                msg |-> msg, text |-> <<>>]
Returned(text) == [raised |-> FALSE, class |-> None, msg |-> "", text |-> text]

\* the message of whatever the extraction library raises
LibraryFault == "<library fault>"

\* validate_input with the size check left out
validate_input_no_size(f) ==
    IF ~f.exists THEN Raised("File does not exist: " \o f.path)
    ELSE IF lower(splitext(f.path)) \notin SUPPORTED_EXTENSIONS
    THEN Raised("Unsupported file extension: " \o lower(splitext(f.path)))
    ELSE Returned(<<>>)

\* validate_input: existence, then extension, then size
validate_input(f) ==
    IF ~f.exists THEN Raised("File does not exist: " \o f.path)
    ELSE IF lower(splitext(f.path)) \notin SUPPORTED_EXTENSIONS
    THEN Raised("Unsupported file extension: " \o lower(splitext(f.path)))
    ELSE IF f.size = 0 THEN Raised("File is empty.")
    ELSE Returned(<<>>)

\* The body of an extractor's try block raises msg, or yields the text.
\* the InputValidationError raised inside the try block is itself caught by
\* "except Exception" and raised again behind the "extraction error" prefix.
extract_text_from_pdf(f) ==
    LET tried == IF f.fault THEN Raised(LibraryFault)
                 ELSE IF IsBlank(f.text)
                 THEN Raised("PDF file contains no extractable text.")
                 ELSE Returned(f.text)
    IN  IF tried.raised THEN Raised("PDF extraction error: " \o tried.msg)
        ELSE tried

extract_text_from_docx(f) ==
    LET tried == IF f.fault THEN Raised(LibraryFault)
                 ELSE IF IsBlank(f.text)
                 THEN Raised("DOCX file contains no extractable text.")
                 ELSE Returned(f.text)
    IN  IF tried.raised THEN Raised("DOCX extraction error: " \o tried.msg)
        ELSE tried

extract_text_from_txt(f) ==
    LET tried == IF f.fault THEN Raised(LibraryFault)
                 ELSE IF IsBlank(f.text) THEN Raised("TXT file is empty.")
                 ELSE Returned(f.text)
    IN  IF tried.raised THEN Raised("TXT extraction error: " \o tried.msg)
        ELSE tried

Pending == [raised |-> FALSE, class |-> None, msg |-> "", text |-> <<>>]

\* parse_input: validate_input(file_path)
ValidateInput ==
    /\ ipc = "validate"
    /\ LET v == validate_input(file)
       IN  IF v.raised
           THEN /\ parse_out' = v
                /\ ipc' = "raised"
           ELSE /\ parse_out' = parse_out
                /\ ipc' = "dispatch"
    /\ UNCHANGED <<file, extract_calls, extracted,
                   sanVars, prmVars, anaVars, mainVars>>

\* the step after an extractor was called
AfterExtract(name, got) ==
    /\ extract_calls' = Append(extract_calls, name)
    /\ IF got.raised
       THEN /\ parse_out' = got
            /\ ipc' = "raised"
            /\ extracted' = extracted
       ELSE /\ parse_out' = parse_out
            /\ ipc' = "sanitize"
            /\ extracted' = got.text
    /\ UNCHANGED <<file, sanVars, prmVars, anaVars, mainVars>>

\* parse_input: if ext == '.pdf'
ExtractPdf ==
    /\ ipc = "dispatch"
    /\ lower(splitext(file.path)) = ".pdf"
    /\ AfterExtract("pdf", extract_text_from_pdf(file))

\* parse_input: elif ext == '.docx'
ExtractDocx ==
    /\ ipc = "dispatch"
    /\ lower(splitext(file.path)) = ".docx"
    /\ AfterExtract("docx", extract_text_from_docx(file))

\* parse_input: elif ext == '.txt'
ExtractTxt ==
    /\ ipc = "dispatch"
    /\ lower(splitext(file.path)) = ".txt"
    /\ AfterExtract("txt", extract_text_from_txt(file))

\* parse_input: sanitize_text(raw_text), an empty result is an error
SanitizeExtracted ==
    /\ ipc = "sanitize"
    /\ LET s == sanitize_text(extracted)
       IN  IF s = <<>>
           THEN /\ parse_out' = Raised("Sanitized text is empty.")
                /\ ipc' = "raised"
           ELSE /\ parse_out' = Returned(s)
                /\ ipc' = "returned"
    /\ UNCHANGED <<file, extract_calls, extracted,
                   sanVars, prmVars, anaVars, mainVars>>

\* what parse_input(f) gives as a whole
parse_input(f) ==
    LET v == validate_input(f)
        e == lower(splitext(f.path))
        x == CASE e = ".pdf"  -> extract_text_from_pdf(f)
               [] e = ".docx" -> extract_text_from_docx(f)
               [] e = ".txt"  -> extract_text_from_txt(f)
               [] OTHER       -> Raised("Unsupported file extension: " \o e)
    IN  IF v.raised THEN v
        ELSE IF x.raised THEN x
        ELSE IF sanitize_text(x.text) = <<>>
        THEN Raised("Sanitized text is empty.")
        ELSE Returned(sanitize_text(x.text))

----------------------------------------------------------------------------
(* llm_orchestrator.build_prompt                                           *)

\* longest text given to build_prompt
MaxPromptTextLen == 3

\* What a text given to build_prompt is made of: a letter, a space, a
\* newline, and the separator the template puts between the two texts.  The
\* separator's characters other than the newline occur in no other element,
\* so two texts are the same string exactly when they are the same sequence.
PromptSeparator == <<"\n\nCandidate Resume:\n">>

PromptAtoms == {"x", " ", "\n"} \cup {PromptSeparator[1]}

PromptTexts == SeqUpTo(PromptAtoms, MaxPromptTextLen)

PromptHeader ==
    << "You are an expert HR assistant. Analyze the following candidate resume against the job description. Extract and compare skills and experience. Output a JSON object with the following fields: matching_score (0-100), matched_skills (list), missing_skills (list), matched_experience (list), missing_experience (list), summary (string).\n\nJob Description:\n" >>

PromptTrailer == <<"\n\nRespond ONLY with the JSON object.">>

\* build_prompt with the texts set side by side, nothing between them
build_prompt_no_separator(job, res) ==
    PromptHeader \o job \o res \o PromptTrailer

build_prompt(job, res) ==
    PromptHeader \o job \o PromptSeparator \o res \o PromptTrailer

\* analyze_resume, line 111: input_prompt = build_prompt(job_desc, resume)
BuildPrompt ==
    /\ apc = "build_prompt"
    /\ input_prompt' = build_prompt(job_desc, resume)
    /\ stages' = Append(stages, "BuildPrompt")
    /\ apc' = "count_prompt_tokens"
    /\ UNCHANGED <<job_desc, resume, env, llm_calls, loc, outcome,
                   sanVars, ingVars, mainVars>>

----------------------------------------------------------------------------
(* llm_orchestrator: the response, the schema, the cost                    *)

\* largest token counts the tokenizer gives, beside 100 and 50
MaxPromptTokens == 2
MaxCompletionTokens == 2

PromptTokenCounts == (0..MaxPromptTokens) \cup {100}
CompletionTokenCounts == (0..MaxCompletionTokens) \cup {50}

\* COST_PER_1K_TOKENS = 0.0015, in millionths of a dollar
COST_PER_1K_TOKENS == 1500

\* three backquotes in a row
Fence == "FENCE"

\* response.content: the JSON text (one element, "BODY") bare, inside a
\* fence with or without the language tag, or after a line of prose
Contents ==
    { <<"BODY">>,
      <<Fence, "json", "\n", "BODY", "\n", Fence>>,
      <<Fence, "\n", "BODY", "\n", Fence>>,
      <<"\n", "BODY", "\n">>,
      <<"Here is the analysis:", "\n", "BODY">> }

\* text.strip()
RECURSIVE LStrip(_)
LStrip(s) == IF s # <<>> /\ IsSpace(Head(s)) THEN LStrip(Tail(s)) ELSE s

RECURSIVE RStrip(_)
RStrip(s) ==
    IF s # <<>> /\ IsSpace(s[Len(s)]) THEN RStrip(SubSeq(s, 1, Len(s) - 1))
    ELSE s

Strip(s) == LStrip(RStrip(s))

AtLineStart(s, i) == i = 1 \/ s[i - 1] = "\n"
AtLineEnd(s, i) == i = Len(s) \/ s[i + 1] = "\n"

\* the position after the white space that starts at i
RECURSIVE SkipSpace(_, _)
SkipSpace(s, i) ==
    IF i <= Len(s) /\ IsSpace(s[i]) THEN SkipSpace(s, i + 1) ELSE i

\* re.sub of the pattern: a fence at the start of a line with the optional
\* "json" and the white space after it, or a fence at the end of a line
RECURSIVE SubFencesFrom(_, _)
SubFencesFrom(s, i) ==
    IF i > Len(s) THEN <<>>
    ELSE IF s[i] = Fence /\ AtLineStart(s, i)
    THEN SubFencesFrom(s, SkipSpace(s, IF i < Len(s) /\ s[i + 1] = "json"
                                       THEN i + 2 ELSE i + 1))
    ELSE IF s[i] = Fence /\ AtLineEnd(s, i) THEN SubFencesFrom(s, i + 1)
    ELSE <<s[i]>> \o SubFencesFrom(s, i + 1)

extract_json_from_llm_output(text) == Strip(SubFencesFrom(Strip(text), 1))

\* The JSON object of the response, field by field: what kind of value each
\* field holds, and the number for matching_score.
AbsentField == [kind |-> "absent", val |-> 0]
ScoreValues == {-1, 0, 90, 100, 101, 150}
ScoreFields ==
    {AbsentField, [kind |-> "null", val |-> 0], [kind |-> "str", val |-> 0],
     [kind |-> "list", val |-> 0]}
    \cup {[kind |-> "number", val |-> v] : v \in ScoreValues}
    \cup {[kind |-> "numeric_str", val |-> v] : v \in {90, 150}}

ListKinds == {"absent", "list_of_str", "str"}
SummaryKinds == {"absent", "str", "number"}
CostKinds == {"absent", "dict", "str"}

GoodBody ==
    [matching_score |-> [kind |-> "number", val |-> 90],
     matched_skills |-> "list_of_str", missing_skills |-> "list_of_str",
     matched_experience |-> "list_of_str",
     missing_experience |-> "list_of_str",
     summary |-> "str", cost_estimate |-> "absent"]

OtherFields == {"matched_skills", "missing_skills", "matched_experience",
                "missing_experience", "summary", "cost_estimate"}

\* the objects of the model: any matching_score, and at most one of the
\* other fields differing from a well-formed response
Bodies ==
    {b \in [matching_score : ScoreFields,
            matched_skills : ListKinds, missing_skills : ListKinds,
            matched_experience : ListKinds, missing_experience : ListKinds,
            summary : SummaryKinds, cost_estimate : CostKinds] :
        Cardinality({f \in OtherFields : b[f] # GoodBody[f]}) <= 1}

\* matching_score: float = Field(..., ge=0, le=100).  The model is validated
\* in pydantic's default mode, which converts a string holding a number to
\* the float before it checks the range.
float_field(f) ==
    f.kind \in {"number", "numeric_str"} /\ 0 <= f.val /\ f.val <= 100

\* AnalysisResult.model_validate(obj): the required fields, each of its
\* type; cost_estimate may be absent
model_validate(b) ==
    /\ float_field(b.matching_score)
    /\ b.matched_skills = "list_of_str"
    /\ b.missing_skills = "list_of_str"
    /\ b.matched_experience = "list_of_str"
    /\ b.missing_experience = "list_of_str"
    /\ b.summary = "str"
    /\ b.cost_estimate \in {"absent", "dict"}

NoCost == [present |-> FALSE, prompt_tokens |-> 0, completion_tokens |-> 0,
           total_tokens |-> 0, usd |-> 0]

\* the totals whose cost, total / 1000 * 0.0015 in binary floating point,
\* lies on the upper side of a half millionth and so rounds up at round(, 6)
TiesRoundedUp ==
    {1, 3, 5, 7, 17, 19, 25, 27, 29, 33, 35, 37, 41, 45, 47, 51, 57, 61, 63,
     65, 67, 69, 77, 79, 81, 83, 85, 87, 91, 93, 97, 99, 101, 105, 111, 113,
     115, 117, 119, 123, 125, 129, 131, 133, 135, 137, 139, 145, 151, 155,
     157, 161, 163, 167, 169, 171, 177, 179, 183, 185, 189, 191, 195, 197,
     199}

\* the cost at a price of 0.002: round(total / 1000 * 0.002, 6)
usd_cost_other_price(total) == (total * 2000) \div 1000

\* round(total_tokens / 1000 * COST_PER_1K_TOKENS, 6), in millionths
usd_cost(total) ==
    LET q == (total * COST_PER_1K_TOKENS) \div 1000
        r == (total * COST_PER_1K_TOKENS) % 1000
    IN  IF r * 2 < 1000 THEN q
        ELSE IF r * 2 > 1000 THEN q + 1
        ELSE IF total \in TiesRoundedUp THEN q + 1 ELSE q

----------------------------------------------------------------------------
(* llm_orchestrator.analyze_resume                                         *)

\* What the world gives one call of analyze_resume.  model_known: tiktoken
\* has an encoding for the model name (encoding_for_model raises KeyError
\* otherwise).  client_fault: constructing ChatOpenAI raises.  llm_fault:
\* the remote call raises.  syntax_ok: the JSON text parses.  parser_raises:
\* the class PydanticOutputParser.parse raises for an object that fails the
\* schema, pydantic's ValidationError or the parser's own exception,
\* whichever the installed library does.  The token counts are the
\* tokenizer's, for the prompt and for the response.
Envs ==
    {e \in [model_known : BOOLEAN, client_fault : BOOLEAN,
            llm_fault : BOOLEAN, content : Contents, syntax_ok : BOOLEAN,
            body : Bodies,
            parser_raises : {"ValidationError", "OutputParserException"},
            prompt_tokens : PromptTokenCounts,
            completion_tokens : CompletionTokenCounts] :
        \* without a response there is nothing to tell responses apart by
        /\ (~e.model_known \/ e.client_fault \/ e.llm_fault) =>
              /\ e.content = <<"BODY">>
              /\ e.syntax_ok
              /\ e.body = GoodBody
              /\ e.completion_tokens = 0
        /\ ~e.model_known => (e.prompt_tokens = 0 /\ ~e.client_fault)
        /\ (~e.model_known \/ e.client_fault) => ~e.llm_fault
        /\ ~e.syntax_ok => e.body = GoodBody
        /\ (~e.syntax_ok \/ model_validate(e.body)) =>
              e.parser_raises = "OutputParserException"}

NoResult == [matching_score |-> 0, cost_estimate |-> NoCost]

NoOutcome == [kind |-> "pending", class |-> None, msg |-> <<"", "">>,
              result |-> NoResult]

NoLocals == [prompt_tokens |-> 0, completion_tokens |-> 0, total_tokens |-> 0,
             cleaned_output |-> <<>>, result |-> NoResult]

\* an exception that leaves analyze_resume as it is
Escapes(class, detail) ==
    [kind |-> "raised", class |-> class, msg |-> <<"", detail>>,
     result |-> NoResult]

\* the two handlers of the try block: except ValidationError, except Exception
Handle(class, detail) ==
    [kind |-> "raised", class |-> "RuntimeError",
     msg |-> IF class = "ValidationError"
             THEN <<"LLM output validation failed: ", detail>>
             ELSE <<"LLM analysis failed: ", detail>>,
     result |-> NoResult]

\* line 115: prompt_tokens = count_tokens(input_prompt, model=model_name),
\* before the try block
CountPromptTokens ==
    /\ apc = "count_prompt_tokens"
    /\ IF env.model_known
       THEN /\ loc' = [loc EXCEPT !.prompt_tokens = env.prompt_tokens]
            /\ apc' = "construct_client"
            /\ outcome' = outcome
       ELSE /\ outcome' = Escapes("KeyError", "no encoding for the model")
            /\ apc' = "raised"
            /\ loc' = loc
    /\ UNCHANGED <<prmVars, env, stages, llm_calls,
                   sanVars, ingVars, mainVars>>

\* line 117: llm = ChatOpenAI(...), before the try block
ConstructClient ==
    /\ apc = "construct_client"
    /\ IF env.client_fault
       THEN /\ outcome' = Escapes("ValidationError", "ChatOpenAI")
            /\ apc' = "raised"
       ELSE /\ outcome' = outcome
            /\ apc' = "call_llm"
    /\ UNCHANGED <<prmVars, env, stages, llm_calls, loc,
                   sanVars, ingVars, mainVars>>

\* the remote call, made again when it raises
CompleteWithRetry ==
    /\ apc = "call_llm"
    /\ stages' = Append(stages, "Complete")
    /\ llm_calls' = IF env.llm_fault THEN llm_calls + 2 ELSE llm_calls + 1
    /\ IF env.llm_fault
       THEN /\ outcome' = Handle("APIError", "remote call")
            /\ apc' = "raised"
       ELSE /\ outcome' = outcome
            /\ apc' = "clean"
    /\ UNCHANGED <<prmVars, env, loc,
                   sanVars, ingVars, mainVars>>

\* line 119: response = llm(prompt)
Complete ==
    /\ apc = "call_llm"
    /\ stages' = Append(stages, "Complete")
    /\ llm_calls' = llm_calls + 1
    /\ IF env.llm_fault
       THEN /\ outcome' = Handle("APIError", "remote call")
            /\ apc' = "raised"
       ELSE /\ outcome' = outcome
            /\ apc' = "clean"
    /\ UNCHANGED <<prmVars, env, loc,
                   sanVars, ingVars, mainVars>>

\* lines 121-126: the fences go, the completion's tokens are counted
CleanAndCount ==
    /\ apc = "clean"
    /\ loc' = [loc EXCEPT
                 !.cleaned_output = extract_json_from_llm_output(env.content),
                 !.completion_tokens = env.completion_tokens,
                 !.total_tokens = loc.prompt_tokens + env.completion_tokens]
    /\ apc' = "parse"
    /\ UNCHANGED <<prmVars, env, stages, llm_calls, outcome,
                   sanVars, ingVars, mainVars>>

\* line 128: result = parser.parse(cleaned_output)
Validate ==
    /\ apc = "parse"
    /\ stages' = Append(stages, "Validate")
    /\ IF loc.cleaned_output # <<"BODY">> \/ ~env.syntax_ok
       THEN /\ outcome' = Handle("OutputParserException", "invalid json")
            /\ apc' = "raised"
            /\ loc' = loc
       ELSE IF ~model_validate(env.body)
       THEN /\ outcome' = Handle(env.parser_raises, "schema")
            /\ apc' = "raised"
            /\ loc' = loc
       ELSE /\ loc' = [loc EXCEPT !.result =
                         [matching_score |-> env.body.matching_score.val,
                          cost_estimate |-> NoCost]]
            /\ apc' = "attach_cost"
            /\ outcome' = outcome
    /\ UNCHANGED <<prmVars, env, llm_calls,
                   sanVars, ingVars, mainVars>>

\* lines 129-134: result.cost_estimate = {...}
AttachCost ==
    /\ apc = "attach_cost"
    /\ stages' = Append(stages, "AttachCost")
    /\ loc' = [loc EXCEPT !.result.cost_estimate =
                 [present |-> TRUE,
                  prompt_tokens |-> loc.prompt_tokens,
                  completion_tokens |-> loc.completion_tokens,
                  total_tokens |-> loc.total_tokens,
                  usd |-> usd_cost(loc.total_tokens)]]
    /\ apc' = "return"
    /\ UNCHANGED <<prmVars, env, llm_calls, outcome,
                   sanVars, ingVars, mainVars>>

\* line 135: return result
Return ==
    /\ apc = "return"
    /\ stages' = Append(stages, "Done")
    /\ outcome' = [kind |-> "returned", class |-> None, msg |-> <<"", "">>,
                   result |-> loc.result]
    /\ apc' = "returned"
    /\ UNCHANGED <<prmVars, env, llm_calls, loc,
                   sanVars, ingVars, mainVars>>

----------------------------------------------------------------------------
(* main.main and output_formatter.save_result_to_file                      *)

\* the files main is run on: missing, empty, unsupported, faulty, blank,
\* made of a denylisted token only, and well-formed ones
MainFiles ==
    {f \in Files :
        /\ f.path \in {"cv.pdf", "cv.txt", "cv.rtf"}
        /\ f.text \in {<<>>, <<"x">>, <<"#", "#", "#">>}}

\* how analyze_resume ends: it returns, raises its RuntimeError, or lets
\* the KeyError of count_tokens through
AnalyzeOutcomes == {"returned", "RuntimeError", "KeyError"}

Args == [job : MainFiles, resume : MainFiles, output : BOOLEAN]

\* format_fault: model_dump_json raises.  open_fault: the output path
\* cannot be opened for writing.
Systems == [analysis : AnalyzeOutcomes, format_fault : BOOLEAN,
            open_fault : BOOLEAN]

NoMainLocals == [job_desc |-> <<>>, resume |-> <<>>, result |-> FALSE]

\* line 28: job_desc = parse_input(args.job); lines 31-38 on an exception
ParseJob ==
    /\ mpc = "parse_job"
    /\ calls' = Append(calls, "parse_input(job)")
    /\ LET r == parse_input(args.job)
       IN  IF r.raised
           THEN /\ printed' = Append(printed, "Input error: " \o r.msg)
                /\ mpc' = "exit"
                /\ mloc' = mloc
           ELSE /\ mloc' = [mloc EXCEPT !.job_desc = r.text]
                /\ mpc' = "parse_resume"
                /\ printed' = printed
    /\ UNCHANGED <<args, sys, out_file,
                   sanVars, ingVars, prmVars, anaVars>>

\* line 30: resume = parse_input(args.resume); lines 31-38 on an exception
ParseResume ==
    /\ mpc = "parse_resume"
    /\ calls' = Append(calls, "parse_input(resume)")
    /\ LET r == parse_input(args.resume)
       IN  IF r.raised
           THEN /\ printed' = Append(printed, "Input error: " \o r.msg)
                /\ mpc' = "exit"
                /\ mloc' = mloc
           ELSE /\ mloc' = [mloc EXCEPT !.resume = r.text]
                /\ mpc' = "analyze"
                /\ printed' = printed
    /\ UNCHANGED <<args, sys, out_file,
                   sanVars, ingVars, prmVars, anaVars>>

\* the analysis step going on to the output after an exception
AnalyzeNoReturn ==
    /\ mpc = "analyze"
    /\ calls' = Append(calls, "analyze_resume")
    /\ IF sys.analysis = "returned"
       THEN /\ mloc' = [mloc EXCEPT !.result = TRUE]
            /\ printed' = printed
       ELSE /\ printed' = Append(printed,
                                 "LLM analysis error: " \o sys.analysis)
            /\ mloc' = mloc
    /\ mpc' = "print"
    /\ UNCHANGED <<args, sys, out_file,
                   sanVars, ingVars, prmVars, anaVars>>

\* line 42: result = analyze_resume(job_desc, resume); lines 43-46 on any
\* exception
Analyze ==
    /\ mpc = "analyze"
    /\ calls' = Append(calls, "analyze_resume")
    /\ IF sys.analysis = "returned"
       THEN /\ mloc' = [mloc EXCEPT !.result = TRUE]
            /\ mpc' = "print"
            /\ printed' = printed
       ELSE /\ printed' = Append(printed,
                                 "LLM analysis error: " \o sys.analysis)
            /\ mpc' = "exit"
            /\ mloc' = mloc
    /\ UNCHANGED <<args, sys, out_file,
                   sanVars, ingVars, prmVars, anaVars>>

\* lines 48-52: the summary and the JSON are printed; an exception of the
\* formatter is not caught and ends the run
PrintResult ==
    /\ mpc = "print"
    /\ IF sys.format_fault
       THEN /\ mpc' = "crashed"
            /\ printed' = printed
       ELSE /\ printed' = printed \o <<"summary", "Full JSON Output", "json">>
            /\ mpc' = IF args.output THEN "save" ELSE "exit"
    /\ UNCHANGED <<args, sys, mloc, calls, out_file,
                   sanVars, ingVars, prmVars, anaVars>>

\* lines 53-57: save_result_to_file(result, args.output), which opens the
\* file for writing and writes the JSON; its exception is printed
SaveResult ==
    /\ mpc = "save"
    /\ calls' = Append(calls, "save_result_to_file")
    /\ IF sys.open_fault
       THEN /\ printed' = Append(printed, "Failed to save output: open")
            /\ out_file' = out_file
       ELSE /\ out_file' = "written"
            /\ printed' = printed
    /\ mpc' = "exit"
    /\ UNCHANGED <<args, sys, mloc,
                   sanVars, ingVars, prmVars, anaVars>>

----------------------------------------------------------------------------
(* sanitize_text applied, and applied again to its own result              *)

RawChars == {"#", ">", "<", "b", " "}

SanitizeOnce ==
    /\ spc = "start"
    /\ sanitized' = sanitize_text(raw_text)
    /\ spc' = "once"
    /\ UNCHANGED <<raw_text, sanitized_again,
                   ingVars, prmVars, anaVars, mainVars>>

SanitizeAgain ==
    /\ spc = "once"
    /\ sanitized_again' = sanitize_text(sanitized)
    /\ spc' = "twice"
    /\ UNCHANGED <<raw_text, sanitized,
                   ingVars, prmVars, anaVars, mainVars>>

----------------------------------------------------------------------------
(* The specifications.                                                     *)

\* a path with no file behind it
MissingFile == [path |-> "cv.txt", exists |-> FALSE, size |-> 0,
                fault |-> FALSE, text |-> <<>>]

IdleSan ==
    /\ raw_text = <<>>
    /\ sanitized = <<>>
    /\ sanitized_again = <<>>
    /\ spc = "idle"

IdleIng ==
    /\ file = MissingFile
    /\ ipc = "idle"
    /\ extract_calls = <<>>
    /\ extracted = <<>>
    /\ parse_out = Pending

IdleEnv ==
    [model_known |-> TRUE, client_fault |-> FALSE, llm_fault |-> FALSE,
     content |-> <<"BODY">>, syntax_ok |-> TRUE, body |-> GoodBody,
     parser_raises |-> "OutputParserException", prompt_tokens |-> 0,
     completion_tokens |-> 0]

IdleAna ==
    /\ job_desc = <<>>
    /\ resume = <<>>
    /\ input_prompt = <<>>
    /\ env = IdleEnv
    /\ apc = "idle"
    /\ stages = <<>>
    /\ llm_calls = 0
    /\ loc = NoLocals
    /\ outcome = NoOutcome

IdleMain ==
    /\ args = [job |-> MissingFile, resume |-> MissingFile, output |-> FALSE]
    /\ sys = [analysis |-> "returned", format_fault |-> FALSE,
              open_fault |-> FALSE]
    /\ mpc = "idle"
    /\ mloc = NoMainLocals
    /\ calls = <<>>
    /\ printed = <<>>
    /\ out_file = "absent"

\* sanitize_text on every raw text of the bound
InitSanitize ==
    /\ raw_text \in SeqUpTo(RawChars, MaxRawLen)
    /\ sanitized = <<>>
    /\ sanitized_again = <<>>
    /\ spc = "start"
    /\ IdleIng /\ IdleAna /\ IdleMain

NextSanitize == SanitizeOnce \/ SanitizeAgain

SpecSanitize == InitSanitize /\ [][NextSanitize]_vars

\* parse_input on every file of the bound
InitIngest ==
    /\ file \in Files
    /\ ipc = "validate"
    /\ extract_calls = <<>>
    /\ extracted = <<>>
    /\ parse_out = Pending
    /\ IdleSan /\ IdleAna /\ IdleMain

NextIngest ==
    \/ ValidateInput
    \/ ExtractPdf
    \/ ExtractDocx
    \/ ExtractTxt
    \/ SanitizeExtracted

SpecIngest == InitIngest /\ [][NextIngest]_vars

\* build_prompt on every pair of texts of the bound
InitPrompt ==
    /\ job_desc \in PromptTexts
    /\ resume \in PromptTexts
    /\ input_prompt = <<>>
    /\ env = IdleEnv
    /\ apc = "build_prompt"
    /\ stages = <<>>
    /\ llm_calls = 0
    /\ loc = NoLocals
    /\ outcome = NoOutcome
    /\ IdleSan /\ IdleIng /\ IdleMain

NextPrompt == BuildPrompt

SpecPrompt == InitPrompt /\ [][NextPrompt]_vars

\* analyze_resume on two clean texts, in every world of the bound
InitAnalyze ==
    /\ job_desc = <<"x", " ", "x">>
    /\ resume = <<"x">>
    /\ input_prompt = <<>>
    /\ env \in Envs
    /\ apc = "build_prompt"
    /\ stages = <<>>
    /\ llm_calls = 0
    /\ loc = NoLocals
    /\ outcome = NoOutcome
    /\ IdleSan /\ IdleIng /\ IdleMain

NextAnalyze ==
    \/ BuildPrompt
    \/ CountPromptTokens
    \/ ConstructClient
    \/ Complete
    \/ CleanAndCount
    \/ Validate
    \/ AttachCost
    \/ Return

SpecAnalyze == InitAnalyze /\ [][NextAnalyze]_vars

\* main on every pair of files and every world of the bound
InitMain ==
    /\ args \in Args
    /\ sys \in Systems
    /\ mpc = "parse_job"
    /\ mloc = NoMainLocals
    /\ calls = <<>>
    /\ printed = <<>>
    /\ out_file = "absent"
    /\ IdleSan /\ IdleIng /\ IdleAna

NextMain ==
    \/ ParseJob
    \/ ParseResume
    \/ Analyze
    \/ PrintResult
    \/ SaveResult

SpecMain == InitMain /\ [][NextMain]_vars

Init == InitSanitize \/ InitIngest \/ InitPrompt \/ InitAnalyze \/ InitMain

Next == NextSanitize \/ NextIngest \/ NextPrompt \/ NextAnalyze \/ NextMain

Spec == Init /\ [][Next]_vars

----------------------------------------------------------------------------
(* The claims.                                                             *)

IsPrefix(s, t) == Len(s) <= Len(t) /\ \A i \in 1..Len(s) : s[i] = t[i]

StageOrder == <<"BuildPrompt", "Complete", "Validate", "AttachCost", "Done">>

C1_StagesInOrder ==
    /\ IsPrefix(stages, StageOrder)
    /\ llm_calls <= 1
    /\ ("Complete" \in {stages[i] : i \in 1..Len(stages)}) => llm_calls = 1
    /\ outcome.kind = "returned" <=> (stages # <<>> /\ stages[Len(stages)] = "Done")
    /\ outcome.kind = "raised" => (apc = "raised" /\ Len(stages) < Len(StageOrder) - 1)

C1_NothingAfterFailure ==
    [][outcome.kind = "raised" =>
          (stages' = stages /\ llm_calls' = llm_calls /\ outcome' = outcome)]_vars

C2_AllFaultsClassified ==
    outcome.kind = "raised" =>
        /\ outcome.class = "RuntimeError"
        /\ env.llm_fault => outcome.msg[1] = "LLM analysis failed: "
        /\ (stages # <<>> /\ stages[Len(stages)] = "Validate") =>
              outcome.msg[1] = "LLM output validation failed: "

\* a number within [0,100], nothing converted
float_field_strict(f) == f.kind = "number" /\ 0 <= f.val /\ f.val <= 100

\* the schema with no conversion: matching_score is a number
StrictlyValid(b) ==
    /\ float_field_strict(b.matching_score)
    /\ b.matched_skills = "list_of_str"
    /\ b.missing_skills = "list_of_str"
    /\ b.matched_experience = "list_of_str"
    /\ b.missing_experience = "list_of_str"
    /\ b.summary = "str"

\* C3: analyze_resume returns a result only if the response, its fences
\* stripped, is an object with the six required fields, each of the right
\* type, and matching_score within [0,100]; a response that misses a field,
\* has a field of the wrong type or a score out of range ends in an error,
\* nothing being converted or recovered.
C3_FailClosed ==
    /\ outcome.kind = "returned" =>
          /\ loc.cleaned_output = <<"BODY">>
          /\ env.syntax_ok
          /\ StrictlyValid(env.body)
    /\ (apc \in {"attach_cost", "return", "returned", "raised"}
          /\ stages # <<>> /\ "Validate" \in {stages[i] : i \in 1..Len(stages)}
          /\ ~StrictlyValid(env.body)) =>
          (outcome.kind = "raised" /\ outcome.class = "RuntimeError")

\* C4: every result analyze_resume returns carries the cost estimate, with
\* total_tokens = prompt_tokens + completion_tokens, none negative, and usd
\* the price of the total at 0.0015 per thousand tokens rounded to six
\* decimals (within half a millionth of the exact price); 100 and 50 tokens
\* give a total of 150 and 0.000225 dollars.
C4_CostAttached ==
    outcome.kind = "returned" =>
        LET c == outcome.result.cost_estimate
        IN  /\ c.present
            /\ c.prompt_tokens = env.prompt_tokens
            /\ c.completion_tokens = env.completion_tokens
            /\ c.prompt_tokens >= 0 /\ c.completion_tokens >= 0
            /\ c.total_tokens = c.prompt_tokens + c.completion_tokens
            /\ 1000 * c.usd - 1500 * c.total_tokens <= 500
            /\ 1500 * c.total_tokens - 1000 * c.usd <= 500
            /\ (c.prompt_tokens = 100 /\ c.completion_tokens = 50) =>
                  (c.total_tokens = 150 /\ c.usd = 225)

C4_Witness ==
    /\ outcome.kind = "returned"
    /\ env.prompt_tokens = 100
    /\ env.completion_tokens = 50
    /\ outcome.result.cost_estimate.total_tokens = 150
    /\ outcome.result.cost_estimate.usd = 225

\* C5: whenever sanitizing succeeds (the text is not empty), the text
\* returned holds none of the denylisted tokens as a substring, those
\* included that only come to exist when another token or a tag is removed
\* from between their parts.
C5_NoDenylistedToken ==
    (spc \in {"once", "twice"} /\ sanitized # <<>>) =>
        ~HasSuspiciousToken(sanitized)

\* C6: sanitizing is idempotent: sanitize_text(sanitize_text(x)) is
\* sanitize_text(x) for every string x.
C6_Idempotent == spc = "twice" => sanitized_again = sanitized

\* a file validate_input has to refuse
InvalidFile(f) ==
    \/ ~f.exists
    \/ lower(splitext(f.path)) \notin {".pdf", ".docx", ".txt"}
    \/ f.size = 0

\* C7: parse_input checks existence, the extension (whatever its case) and
\* size > 0 before any extractor is called: on a missing path, an
\* unsupported extension or a zero-byte file it fails with the validation
\* error and no extractor is ever called in that run.
C7_ValidateBeforeExtract ==
    (ipc # "idle" /\ InvalidFile(file)) =>
        /\ extract_calls = <<>>
        /\ ipc \in {"validate", "raised"}
        /\ ipc = "raised" =>
              /\ parse_out.raised
              /\ parse_out.class = "InputValidationError"
              /\ parse_out.msg \in
                    {"File does not exist: " \o file.path,
                     "Unsupported file extension: "
                         \o lower(splitext(file.path)),
                     "File is empty."}

C7_Witness ==
    /\ ipc = "raised"
    /\ file.exists
    /\ file.path = "cv.PDF"
    /\ file.size = 0
    /\ parse_out.msg = "File is empty."
    /\ extract_calls = <<>>

FormatName(f) ==
    CASE lower(splitext(f.path)) = ".pdf"  -> "PDF"
      [] lower(splitext(f.path)) = ".docx" -> "DOCX"
      [] OTHER                             -> "TXT"

\* C8: for each of the three formats, a file that passes validation and
\* whose extracted text is empty or blank fails with the message
\* "<format> file contains no extractable text", which tells it from a fault
\* of the extraction library ("<format> extraction error: ...").
C8_EmptyIsDistinct ==
    (ipc = "raised" /\ extract_calls # <<>>) =>
        IF file.fault
        THEN parse_out.msg = FormatName(file) \o " extraction error: "
                                 \o LibraryFault
        ELSE parse_out.msg \in
                {FormatName(file) \o " file contains no extractable text",
                 FormatName(file) \o " file contains no extractable text."}

\* C9: build_prompt is injective: two pairs of texts give the same prompt
\* only if they are the same pair.
C9_Injective ==
    apc = "count_prompt_tokens" =>
        \A j \in PromptTexts, r \in PromptTexts :
            build_prompt(j, r) = input_prompt => (j = job_desc /\ r = resume)

HasNewline(s) ==
    \E i \in 1..Len(s) : s[i] \in {"\n"} \cup {PromptSeparator[1]}

CleanPromptTexts == SeqUpTo({"x", " "}, MaxPromptTextLen)

\* C9 amended: build_prompt is injective on texts that hold no newline, as
\* every text sanitize_text returns: two such pairs give the same prompt
\* only if they are the same pair.
C9_InjectiveOnCleanText ==
    (apc = "count_prompt_tokens" /\ ~HasNewline(job_desc)
        /\ ~HasNewline(resume)) =>
        \A j \in CleanPromptTexts, r \in CleanPromptTexts :
            build_prompt(j, r) = input_prompt => (j = job_desc /\ r = resume)

C9_Witness ==
    /\ apc = "count_prompt_tokens"
    /\ job_desc = <<"x", " ", "x">>
    /\ resume = <<"x", "x">>
    /\ input_prompt = PromptHeader \o <<"x", " ", "x">> \o PromptSeparator
                         \o <<"x", "x">> \o PromptTrailer

CallOrder == <<"parse_input(job)", "parse_input(resume)", "analyze_resume",
               "save_result_to_file">>

Called(c) == c \in {calls[i] : i \in 1..Len(calls)}

\* C10: in every run of main the job description is ingested, then the
\* resume, then analyze_resume is called, and only if both ingestions
\* succeeded; the output file is written only if an output path was given
\* and analyze_resume returned a result; on an input or analysis error the
\* run prints the message and ends without writing the output file.
C10_MainOrder ==
    /\ IsPrefix(calls, CallOrder)
    /\ Called("analyze_resume") =>
          (~parse_input(args.job).raised /\ ~parse_input(args.resume).raised)
    /\ (Called("save_result_to_file") \/ out_file # "absent") =>
          (args.output /\ sys.analysis = "returned"
              /\ Called("analyze_resume"))
    /\ (mpc \in {"exit", "crashed"}
          /\ (\/ parse_input(args.job).raised
              \/ parse_input(args.resume).raised
              \/ sys.analysis # "returned")) =>
          /\ printed # <<>>
          /\ out_file = "absent"
          /\ ~Called("save_result_to_file")
          /\ mpc = "exit"

C10_Witness ==
    /\ mpc = "exit"
    /\ args.output
    /\ ~parse_input(args.job).raised
    /\ ~parse_input(args.resume).raised
    /\ sys.analysis = "RuntimeError"
    /\ calls = <<"parse_input(job)", "parse_input(resume)", "analyze_resume">>
    /\ printed = <<"LLM analysis error: RuntimeError">>
    /\ out_file = "absent"

=============================================================================
